---- MODULE Spec2Model ----
(***************************************************************************)
(* A model of RAGEngine (src/rag_engine.py): the in-memory knowledge base  *)
(* (documents, chunks), document ingestion (PDF text extraction, text      *)
(* clean-up, sentence chunking) and the keyword search over the chunks.    *)
(*                                                                         *)
(* A Python str is a sequence of one-character strings.  A dict is a       *)
(* sequence of [key, value] entries in insertion order.  A similarity      *)
(* score is an exact fraction [num, den]; every score of one search has    *)
(* the same denominator 10 * len(query_words).                             *)
(***************************************************************************)
EXTENDS Integers, Sequences, FiniteSets, TLC

VARIABLES documents, chunks, ret

vars == <<documents, chunks, ret>>

(***************************************************************************)
(* Bounds of the model.                                                    *)
(***************************************************************************)
MaxDocs == 2

(***************************************************************************)
(* Characters and the str methods and regular-expression character         *)
(* classes the engine uses.                                                *)
(***************************************************************************)
UpperLetters == <<"A", "B", "C", "D", "E", "F", "G", "H", "I", "J", "K", "L", "M",
                  "N", "O", "P", "Q", "R", "S", "T", "U", "V", "W", "X", "Y", "Z">>

LowerLetters == <<"a", "b", "c", "d", "e", "f", "g", "h", "i", "j", "k", "l", "m",
                  "n", "o", "p", "q", "r", "s", "t", "u", "v", "w", "x", "y", "z">>

DigitChars == <<"0", "1", "2", "3", "4", "5", "6", "7", "8", "9">>

Range(f) == {f[i] : i \in DOMAIN f}

Min(S) == CHOOSE m \in S : \A k \in S : m <= k

Max(S) == CHOOSE m \in S : \A k \in S : m >= k

\* \s of the re module
SpaceChars == {" ", "\t", "\n", "\r", "\f"}

IsSpace(c) == c \in SpaceChars

\* \w of the re module
WordChars == Range(UpperLetters) \cup Range(LowerLetters) \cup Range(DigitChars) \cup {"_"}

IsWordChar(c) == c \in WordChars

\* the characters [\w\s.,;:!?()\-\'""] that preprocess_text keeps
KeptChars == WordChars \cup SpaceChars \cup {".", ",", ";", ":", "!", "?", "(", ")", "-", "'", "\""}

IsKeptChar(c) == c \in KeptChars

\* [.!?], the lookbehind of the sentence split
IsTerminator(c) == c \in {".", "!", "?"}

LowerOf == [c \in Range(UpperLetters) |->
               LowerLetters[CHOOSE i \in DOMAIN UpperLetters : UpperLetters[i] = c]]

LowerChar(c) == IF c \in DOMAIN LowerOf THEN LowerOf[c] ELSE c

\* str.lower()
lower(s) == [i \in 1..Len(s) |-> LowerChar(s[i])]

\* str.strip()
strip(s) ==
    IF \A i \in 1..Len(s) : IsSpace(s[i]) THEN <<>>
    ELSE LET first == CHOOSE i \in 1..Len(s) :
                          ~IsSpace(s[i]) /\ \A j \in 1..(i - 1) : IsSpace(s[j])
             last == CHOOSE i \in 1..Len(s) :
                         ~IsSpace(s[i]) /\ \A j \in (i + 1)..Len(s) : IsSpace(s[j])
         IN  SubSeq(s, first, last)

\* str(n) for n >= 0
RECURSIVE str(_)
str(n) == IF n < 10 THEN <<DigitChars[n + 1]>> ELSE str(n \div 10) \o <<DigitChars[(n % 10) + 1]>>

\* sub in s (Python's in on str)
Contains(s, sub) ==
    \/ Len(sub) = 0
    \/ \E i \in 1..(Len(s) - Len(sub) + 1) :
          /\ s[i] = sub[1]
          /\ SubSeq(s, i, i + Len(sub) - 1) = sub

\* a marker no character equals: the places a substitution deletes
Deleted == ""

\* re.sub(r'\s+', ' ', s): every maximal run of whitespace becomes one space
SubSpaceRuns(s) ==
    SelectSeq([i \in 1..Len(s) |->
                  IF IsSpace(s[i])
                  THEN (IF i > 1 /\ IsSpace(s[i - 1]) THEN Deleted ELSE " ")
                  ELSE s[i]],
              LAMBDA c : c # Deleted)

\* re.sub(r' +', ' ', s): every maximal run of blanks becomes one blank
SubBlankRuns(s) ==
    SelectSeq([i \in 1..Len(s) |->
                  IF s[i] = " " /\ i > 1 /\ s[i - 1] = " " THEN Deleted ELSE s[i]],
              LAMBDA c : c # Deleted)

\* WordSet with the maximal runs of characters that are not white space as the words
WordSetOfRuns(s) ==
    LET gaps == {i \in 1..Len(s) : IsSpace(s[i])} \cup {0, Len(s) + 1}
        starts == {g + 1 : g \in {i \in gaps : i < Len(s) /\ (i + 1) \notin gaps}}
    IN  {SubSeq(s, i, Min({g \in gaps : g > i}) - 1) : i \in starts}

\* set(re.findall(r'\b\w+\b', s)): the maximal runs of word characters of s,
\* each from behind a gap (a character that is no word character, or an end of s)
\* to the next gap
WordSet(s) ==
    LET gaps == {i \in 1..Len(s) : ~IsWordChar(s[i])} \cup {0, Len(s) + 1}
        starts == {g + 1 : g \in {i \in gaps : i < Len(s) /\ (i + 1) \notin gaps}}
    IN  {SubSeq(s, i, Min({g \in gaps : g > i}) - 1) : i \in starts}

\* sep.join(parts)
RECURSIVE join(_, _)
join(sep, parts) ==
    IF Len(parts) = 0 THEN <<>>
    ELSE IF Len(parts) = 1 THEN parts[1]
    ELSE parts[1] \o sep \o join(sep, Tail(parts))

(***************************************************************************)
(* The uploaded PDF as PyPDF2 presents it: PdfReader(...) either raises or *)
(* gives the pages; extract_text() of a page either raises or gives text.  *)
(***************************************************************************)
Returned(v) == [raised |-> FALSE, value |-> v]

Raised(msg) == [raised |-> TRUE, value |-> msg]

\* f"\n--- Page {page_num + 1} of {total_pages} ---\n"
PageMarker(page_num, total_pages) ==
    <<"\n", "-", "-", "-", " ", "P", "a", "g", "e", " ">> \o str(page_num + 1)
        \o <<" ", "o", "f", " ">> \o str(total_pages) \o <<" ", "-", "-", "-", "\n">>

\* one round of the loop over pdf_reader.pages; page_num counts from 0
ExtractPage(extracted_text, page, page_num, total_pages) ==
    IF page.raises THEN extracted_text
    ELSE LET page_text == strip(page.text)
         IN  IF page_text = <<>> THEN extracted_text
             ELSE extracted_text \o PageMarker(page_num, total_pages) \o page_text \o <<"\n">>

RECURSIVE ExtractPages(_, _, _)
ExtractPages(pages, page_num, extracted_text) ==
    IF page_num >= Len(pages) THEN extracted_text
    ELSE ExtractPages(pages, page_num + 1,
                      ExtractPage(extracted_text, pages[page_num + 1], page_num, Len(pages)))

\* extract_text_from_pdf without its test "if not extracted_text.strip()"
ExtractWithoutEmptyTest(pdf_file) ==
    IF ~pdf_file.opens THEN Raised("PDF text extraction failed")
    ELSE Returned(strip(ExtractPages(pdf_file.pages, 0, <<>>)))

extract_text_from_pdf(pdf_file) ==
    IF ~pdf_file.opens THEN Raised("PDF text extraction failed")
    ELSE LET extracted_text == strip(ExtractPages(pdf_file.pages, 0, <<>>))
         IN  IF extracted_text = <<>>
             THEN Raised("PDF text extraction failed")
             ELSE Returned(extracted_text)

(***************************************************************************)
(* Text clean-up and chunking.                                             *)
(***************************************************************************)
preprocess_text(text) ==
    LET t1 == SubSpaceRuns(text)
        t2 == [i \in 1..Len(t1) |-> IF IsKeptChar(t1[i]) THEN t1[i] ELSE " "]
        t3 == SubBlankRuns(t2)
    IN  strip(t3)

\* re.split(r'(?<=[.!?])\s+', text), the pieces of text[p..]
RECURSIVE SplitFrom(_, _)
SplitFrom(text, p) ==
    LET n == Len(text)
        cuts == {i \in p..n : i > 1 /\ IsSpace(text[i]) /\ IsTerminator(text[i - 1])}
    IN  IF cuts = {} THEN <<SubSeq(text, p, n)>>
        ELSE LET c == Min(cuts)
                 e == Min({j \in c..n : j = n \/ ~IsSpace(text[j + 1])})
             IN  <<SubSeq(text, p, c - 1)>> \o SplitFrom(text, e + 1)

SplitSentences(text) == SplitFrom(text, 1)

ChunkRecord(current_chunk, sentence_buffer) ==
    [text |-> strip(current_chunk),
     length |-> Len(current_chunk),
     sentence_count |-> Len(sentence_buffer)]

\* ChunkStep that takes sentences over from a closed chunk of 2 sentences too
ChunkStepOverlapFromTwo(st, sentence, chunk_size) ==
    LET projected_length == Len(st.current_chunk) + Len(sentence) + 1
    IN  IF projected_length > chunk_size /\ st.current_chunk # <<>>
        THEN IF Len(st.sentence_buffer) >= 2
             THEN LET overlap_sentences ==
                          SubSeq(st.sentence_buffer, Len(st.sentence_buffer) - 1,
                                 Len(st.sentence_buffer))
                  IN  [chunks |-> Append(st.chunks, ChunkRecord(st.current_chunk, st.sentence_buffer)),
                       current_chunk |-> join(<<" ">>, overlap_sentences) \o <<" ">> \o sentence,
                       sentence_buffer |-> Append(overlap_sentences, sentence)]
             ELSE [chunks |-> Append(st.chunks, ChunkRecord(st.current_chunk, st.sentence_buffer)),
                   current_chunk |-> sentence,
                   sentence_buffer |-> <<sentence>>]
        ELSE [chunks |-> st.chunks,
              current_chunk |-> IF st.current_chunk = <<>> THEN sentence
                                ELSE st.current_chunk \o <<" ">> \o sentence,
              sentence_buffer |-> Append(st.sentence_buffer, sentence)]

\* one round of the loop over the sentences; st is [chunks, current_chunk, sentence_buffer]
ChunkStep(st, sentence, chunk_size) ==
    LET projected_length == Len(st.current_chunk) + Len(sentence) + 1
    IN  IF projected_length > chunk_size /\ st.current_chunk # <<>>
        THEN IF Len(st.sentence_buffer) > 2
             THEN LET overlap_sentences ==
                          SubSeq(st.sentence_buffer, Len(st.sentence_buffer) - 1,
                                 Len(st.sentence_buffer))
                  IN  [chunks |-> Append(st.chunks, ChunkRecord(st.current_chunk, st.sentence_buffer)),
                       current_chunk |-> join(<<" ">>, overlap_sentences) \o <<" ">> \o sentence,
                       sentence_buffer |-> Append(overlap_sentences, sentence)]
             ELSE [chunks |-> Append(st.chunks, ChunkRecord(st.current_chunk, st.sentence_buffer)),
                   current_chunk |-> sentence,
                   sentence_buffer |-> <<sentence>>]
        ELSE [chunks |-> st.chunks,
              current_chunk |-> IF st.current_chunk # <<>>
                                THEN st.current_chunk \o <<" ">> \o sentence
                                ELSE sentence,
              sentence_buffer |-> Append(st.sentence_buffer, sentence)]

RECURSIVE ChunkLoop(_, _, _)
ChunkLoop(st, sentences, chunk_size) ==
    IF sentences = <<>> THEN st
    ELSE ChunkLoop(ChunkStep(st, Head(sentences), chunk_size), Tail(sentences), chunk_size)

\* create_chunks without the chunk that is added after the loop
CreateChunksInLoopOnly(text, chunk_size) ==
    LET processed_text == preprocess_text(text)
        sentences == SplitSentences(processed_text)
    IN  ChunkLoop([chunks |-> <<>>, current_chunk |-> <<>>, sentence_buffer |-> <<>>],
                  sentences, chunk_size).chunks

create_chunks(text, chunk_size) ==
    LET processed_text == preprocess_text(text)
        sentences == SplitSentences(processed_text)
        st == ChunkLoop([chunks |-> <<>>, current_chunk |-> <<>>, sentence_buffer |-> <<>>],
                        sentences, chunk_size)
    IN  IF strip(st.current_chunk) # <<>>
        THEN Append(st.chunks, ChunkRecord(st.current_chunk, st.sentence_buffer))
        ELSE st.chunks

\* the default of create_chunks' chunk_size
DefaultChunkSize == 1000

(***************************************************************************)
(* Python containers: a dict in insertion order, list slicing, list.sort.  *)
(***************************************************************************)
Keys(d) == {d[i].key : i \in 1..Len(d)}

\* d[k] = v: the value of an existing key is replaced in place, a new key goes last
DictSet(d, k, v) ==
    IF k \in Keys(d)
    THEN [i \in 1..Len(d) |-> IF d[i].key = k THEN [key |-> k, value |-> v] ELSE d[i]]
    ELSE Append(d, [key |-> k, value |-> v])

\* list(d.values())
Values(d) == [i \in 1..Len(d) |-> d[i].value]

\* xs[:n + 1]
SliceToInclusive(xs, n) == SubSeq(xs, 1, Min({n + 1, Len(xs)}))

\* xs[:n]
SliceTo(xs, n) ==
    IF n >= 0 THEN SubSeq(xs, 1, Min({n, Len(xs)}))
    ELSE SubSeq(xs, 1, Max({0, Len(xs) + n}))

\* uuid.uuid4() as a string: a value no stored document has as its key
\* (the chance that two version 4 UUIDs coincide is not modelled)
uuid4(issued) == Min({n \in 1..(Cardinality(issued) + 1) : n \notin issued})

(***************************************************************************)
(* add_document                                                            *)
(***************************************************************************)
\* ChunkData with chunk_index counted from 1
ChunkDataOneBased(doc_id, filename, i, chunk) ==
    [id |-> <<doc_id, i>>,
     text |-> chunk.text,
     text_lower |-> lower(chunk.text),
     filename |-> filename,
     doc_id |-> doc_id,
     chunk_index |-> i + 1,
     length |-> chunk.length,
     sentence_count |-> chunk.sentence_count]

\* the chunk_data of round i of the loop over doc_chunks
ChunkData(doc_id, filename, i, chunk) ==
    [id |-> <<doc_id, i>>,
     text |-> chunk.text,
     text_lower |-> lower(chunk.text),
     filename |-> filename,
     doc_id |-> doc_id,
     chunk_index |-> i,
     length |-> chunk.length,
     sentence_count |-> chunk.sentence_count]

\* StoreChunks with the new chunks put in front of the stored ones
StoreChunksInFront(stored, doc_id, filename, doc_chunks) ==
    [k \in 1..Len(doc_chunks) |-> ChunkData(doc_id, filename, k - 1, doc_chunks[k])] \o stored

\* self.chunks after the loop "for i, chunk in enumerate(doc_chunks)"
StoreChunks(stored, doc_id, filename, doc_chunks) ==
    stored \o [k \in 1..Len(doc_chunks) |-> ChunkData(doc_id, filename, k - 1, doc_chunks[k])]

\* DocumentRecord with the last index of the loop over doc_chunks as the chunk count
DocumentRecordLastIndex(filename, doc_chunks, document_text) ==
    [filename |-> filename,
     chunks |-> Len(doc_chunks) - 1,
     total_chars |-> Len(document_text),
     preview |-> IF Len(document_text) > 300
                 THEN SubSeq(document_text, 1, 300) \o <<".", ".", ".">>
                 ELSE document_text]

\* the metadata record of a document
DocumentRecord(filename, doc_chunks, document_text) ==
    [filename |-> filename,
     chunks |-> Len(doc_chunks),
     total_chars |-> Len(document_text),
     preview |-> IF Len(document_text) > 300
                 THEN SubSeq(document_text, 1, 300) \o <<".", ".", ".">>
                 ELSE document_text]

\* add_document on the knowledge base (docs, stored): the outcome of the call and
\* the knowledge base it leaves
add_document(docs, stored, pdf_file, filename) ==
    LET extracted == extract_text_from_pdf(pdf_file)
    IN  IF extracted.raised
        THEN [outcome |-> Raised("Failed to add document"), documents |-> docs, chunks |-> stored]
        ELSE LET document_text == extracted.value
                 doc_chunks == create_chunks(document_text, DefaultChunkSize)
                 doc_id == uuid4(Keys(docs))
             IN  [outcome |-> Returned(<<doc_id, Len(doc_chunks)>>),
                  documents |-> DictSet(docs, doc_id,
                                        DocumentRecord(filename, doc_chunks, document_text)),
                  chunks |-> StoreChunks(stored, doc_id, filename, doc_chunks)]

(***************************************************************************)
(* search_relevant_content                                                 *)
(***************************************************************************)
\* SimilarityScore with the sequence bonus given from one common word on
SimilarityScoreSequenceFromOne(common_words, query_words, phrase_match) ==
    LET q == Cardinality(query_words)
        final_score == 10 * Cardinality(common_words)
                           + (IF phrase_match THEN 3 * q ELSE 0)
                           + (IF Cardinality(common_words) >= 1 THEN 2 * q ELSE 0)
    IN  [num |-> Min({final_score, 10 * q}), den |-> 10 * q]

\* SimilarityScore without the phrase bonus
SimilarityScoreNoPhrase(common_words, query_words, phrase_match) ==
    LET q == Cardinality(query_words)
        final_score == 10 * Cardinality(common_words)
                           + (IF Cardinality(common_words) > 1 THEN 2 * q ELSE 0)
    IN  [num |-> Min({final_score, 10 * q}), den |-> 10 * q]

\* final_score and its cap, as the fraction num / den with den = 10 * len(query_words):
\* base_score = len(common_words) / len(query_words), phrase_bonus 0.3, sequence_bonus 0.2
SimilarityScore(common_words, query_words, phrase_match) ==
    LET q == Cardinality(query_words)
        base_score == 10 * Cardinality(common_words)
        phrase_bonus == IF phrase_match THEN 3 * q ELSE 0
        sequence_bonus == IF Cardinality(common_words) > 1 THEN 2 * q ELSE 0
        final_score == base_score + phrase_bonus + sequence_bonus
    IN  [num |-> Min({final_score, 10 * q}), den |-> 10 * q]

\* the entry appended to scored_chunks for the chunk at position pos of self.chunks;
\* pos is not a key of the entry in the code: it records which chunk the entry is of
ScoredChunk(chunk, pos, query_lower, query_words, common_words) ==
    [text |-> chunk.text,
     filename |-> chunk.filename,
     similarity_score |-> SimilarityScore(common_words, query_words,
                                          Contains(chunk.text_lower, query_lower)),
     chunk_index |-> chunk.chunk_index,
     matching_words |-> common_words,
     pos |-> pos]

\* ScoreChunks without its test "if common_words"
RECURSIVE ScoreChunksUnfiltered(_, _, _, _)
ScoreChunksUnfiltered(stored, pos, query_lower, query_words) ==
    IF pos > Len(stored) THEN <<>>
    ELSE <<ScoredChunk(stored[pos], pos, query_lower, query_words,
                       query_words \cap WordSet(stored[pos].text_lower))>>
             \o ScoreChunksUnfiltered(stored, pos + 1, query_lower, query_words)

\* scored_chunks after the loop over self.chunks
RECURSIVE ScoreChunks(_, _, _, _)
ScoreChunks(stored, pos, query_lower, query_words) ==
    IF pos > Len(stored) THEN <<>>
    ELSE LET chunk == stored[pos]
             chunk_words == WordSet(chunk.text_lower)
             common_words == query_words \cap chunk_words
         IN  (IF common_words # {}
              THEN <<ScoredChunk(chunk, pos, query_lower, query_words, common_words)>>
              ELSE <<>>)
             \o ScoreChunks(stored, pos + 1, query_lower, query_words)

\* InsertByScore that puts x in front of the entries of its own score
InsertByScoreUnstable(sorted, x) ==
    LET ahead == {i \in 1..Len(sorted) :
                     sorted[i].similarity_score.num > x.similarity_score.num}
        k == IF ahead = {} THEN 0 ELSE Max(ahead)
    IN  SubSeq(sorted, 1, k) \o <<x>> \o SubSeq(sorted, k + 1, Len(sorted))

\* the place list.sort(key=similarity_score, reverse=True) gives x among the
\* entries sorted so far: behind every entry that does not score less (the sort is stable)
InsertByScore(sorted, x) ==
    LET ahead == {i \in 1..Len(sorted) :
                     sorted[i].similarity_score.num >= x.similarity_score.num}
        k == IF ahead = {} THEN 0 ELSE Max(ahead)
    IN  SubSeq(sorted, 1, k) \o <<x>> \o SubSeq(sorted, k + 1, Len(sorted))

RECURSIVE SortByScore(_, _)
SortByScore(sorted, rest) ==
    IF rest = <<>> THEN sorted
    ELSE SortByScore(InsertByScore(sorted, Head(rest)), Tail(rest))

\* the value None: a sequence that holds one element that is not a character, so
\* that it can be told from every str
None == <<"None">>

\* the try block of search_relevant_content; query.lower() raises on a query
\* that is not a str
RankChunks(stored, query, max_results) ==
    IF query = None THEN Raised("AttributeError")
    ELSE LET query_lower == lower(query)
             query_words == WordSet(query_lower)
         IN  IF query_words = {} THEN Returned(<<>>)
             ELSE LET scored_chunks == ScoreChunks(stored, 1, query_lower, query_words)
                  IN  Returned(SliceTo(SortByScore(<<>>, scored_chunks), max_results))

\* search_relevant_content without its except clause
SearchWithoutExcept(stored, query, max_results) ==
    IF stored = <<>> THEN Returned(<<>>)
    ELSE RankChunks(stored, query, max_results)

\* the outcome of search_relevant_content: what the try block returns, and the
\* empty list when it raises
search_relevant_content(stored, query, max_results) ==
    IF stored = <<>> THEN Returned(<<>>)
    ELSE LET ranked == RankChunks(stored, query, max_results)
         IN  IF ranked.raised THEN Returned(<<>>) ELSE ranked

(***************************************************************************)
(* The Google AI service as call_google_ai sees it.  A reply is what one   *)
(* requests.post meets: a response with a candidate text, an exception of  *)
(* requests (connection, timeout, HTTP status), a response whose candidate *)
(* lacks a key, or a response without candidates.  A call gives the posts  *)
(* it made, each with the reply it met, and its outcome.                   *)
(***************************************************************************)
call_google_ai(prompt, reply) ==
    [posts |-> <<[prompt |-> prompt, reply |-> reply]>>,
     outcome |-> IF reply.kind = "RequestException"
                 THEN Raised("Google AI API request failed")
                 ELSE IF reply.kind = "KeyError"
                 THEN Raised("Unexpected response format from Google AI")
                 ELSE IF reply.kind = "candidates"
                 THEN Returned(reply.text)
                 ELSE Raised("Google AI API call failed")]

(***************************************************************************)
(* generate_answer                                                         *)
(***************************************************************************)
NoRelevantInformation ==
    "I couldn't find relevant information in your uploaded documents to answer this question."

\* the prompt of generate_answer: the parts that vary, without the fixed wording
AnswerPrompt(relevant_chunks, question, complexity_level) ==
    [context |-> [i \in 1..Len(relevant_chunks) |->
                     [source_info |-> <<"Source", i, "from", relevant_chunks[i].filename>>,
                      text |-> relevant_chunks[i].text]],
     question |-> question,
     style_instruction |->
         IF Contains(lower(complexity_level), <<"a", "d", "v", "a", "n", "c", "e", "d">>)
         THEN "comprehensive, technical explanation"
         ELSE "clear, beginner-friendly explanation"]

\* matching_words[:5]; the order of the words of a set in a list is not fixed,
\* so of more than 5 words any 5 can be kept
FirstFive(matching_words) ==
    IF Cardinality(matching_words) <= 5 THEN matching_words
    ELSE CHOOSE kept \in SUBSET matching_words : Cardinality(kept) = 5

Sources(relevant_chunks) ==
    [k \in 1..Len(relevant_chunks) |->
        [filename |-> relevant_chunks[k].filename,
         confidence |-> relevant_chunks[k].similarity_score,
         matching_terms |-> FirstFive(relevant_chunks[k].matching_words)]]

\* generate_answer without the return on an empty search result
GenerateAnswerWithoutEmptyTest(found, question, complexity_level, reply) ==
    LET relevant_chunks == found.value
        called == call_google_ai(AnswerPrompt(relevant_chunks, question, complexity_level), reply)
    IN  IF called.outcome.raised
        THEN [posts |-> called.posts, outcome |-> Raised("Answer generation failed")]
        ELSE [posts |-> called.posts,
              outcome |-> Returned([answer |-> called.outcome.value,
                                    sources |-> Sources(relevant_chunks),
                                    context_used |-> Len(relevant_chunks)])]

\* generate_answer that gives the error of call_google_ai as the answer
GenerateAnswerSwallowingErrors(found, question, complexity_level, reply) ==
    LET relevant_chunks == found.value
    IN  IF relevant_chunks = <<>>
        THEN [posts |-> <<>>,
              outcome |-> Returned([answer |-> NoRelevantInformation,
                                    sources |-> <<>>, context_used |-> 0])]
        ELSE LET called == call_google_ai(
                               AnswerPrompt(relevant_chunks, question, complexity_level), reply)
             IN  [posts |-> called.posts,
                  outcome |-> Returned([answer |-> called.outcome.value,
                                        sources |-> Sources(relevant_chunks),
                                        context_used |-> Len(relevant_chunks)])]

\* generate_answer from the outcome found of its call of search_relevant_content,
\* with the reply the service gives to a post: the posts made and the outcome
generate_answer(found, question, complexity_level, reply) ==
        IF found.raised
        THEN [posts |-> <<>>, outcome |-> Raised("Answer generation failed")]
        ELSE IF found.value = <<>>
        THEN [posts |-> <<>>,
              outcome |-> Returned([answer |-> NoRelevantInformation,
                                    sources |-> <<>>, context_used |-> 0])]
        ELSE LET relevant_chunks == found.value
                 called == call_google_ai(
                               AnswerPrompt(relevant_chunks, question, complexity_level), reply)
             IN  IF called.outcome.raised
                 THEN [posts |-> called.posts, outcome |-> Raised("Answer generation failed")]
                 ELSE [posts |-> called.posts,
                       outcome |-> Returned([answer |-> called.outcome.value,
                                             sources |-> Sources(relevant_chunks),
                                             context_used |-> Len(relevant_chunks)])]

(***************************************************************************)
(* get_document_stats and generate_study_quiz                              *)
(***************************************************************************)
\* get_document_stats with the newest document first
GetDocumentStatsNewestFirst(docs, stored) ==
    [total_documents |-> Len(docs),
     total_chunks |-> Len(stored),
     documents |-> [i \in 1..Len(docs) |-> docs[Len(docs) + 1 - i].value]]

\* len() and list() of a dict and a list do not raise, so the except branch
\* of get_document_stats is never taken
get_document_stats(docs, stored) ==
    [total_documents |-> Len(docs),
     total_chunks |-> Len(stored),
     documents |-> Values(docs)]

\* "main concepts key points important"
GeneralSearchTerms ==
    <<"m", "a", "i", "n", " ", "c", "o", "n", "c", "e", "p", "t", "s", " ", "k", "e", "y", " ",
      "p", "o", "i", "n", "t", "s", " ", "i", "m", "p", "o", "r", "t", "a", "n", "t">>

\* the prompt of generate_study_quiz: the parts that vary
QuizPrompt(relevant_chunks, question_count) ==
    [quiz_content |-> join(<<"\n", "\n">>,
                           [k \in 1..Len(SliceTo(relevant_chunks, 3)) |-> relevant_chunks[k].text]),
     question_count |-> question_count]

\* the query of generate_study_quiz' call of search_relevant_content
QuizQuery(topic) == IF topic # None /\ topic # <<>> THEN topic ELSE GeneralSearchTerms

\* generate_study_quiz from the outcome found of its call of
\* search_relevant_content; it never raises: every failure is returned as an
\* error record
generate_study_quiz(found, question_count, reply) ==
        IF found.raised
        THEN [posts |-> <<>>, outcome |-> Returned([error |-> "Quiz generation failed"])]
        ELSE IF found.value = <<>>
        THEN [posts |-> <<>>,
              outcome |-> Returned([error |-> "Insufficient content available for quiz generation."])]
        ELSE LET relevant_chunks == found.value
                 called == call_google_ai(QuizPrompt(relevant_chunks, question_count), reply)
             IN  IF called.outcome.raised
                 THEN [posts |-> called.posts,
                       outcome |-> Returned([error |-> "Quiz generation failed"])]
                 ELSE [posts |-> called.posts,
                       outcome |-> Returned(
                           [quiz_content |-> called.outcome.value,
                            source_documents |->
                                {relevant_chunks[k].filename :
                                     k \in 1..Len(SliceTo(relevant_chunks, 3))},
                            questions_generated |-> question_count])]

(***************************************************************************)
(* The inputs of the model: the uploads and the queries.                   *)
(***************************************************************************)
Repeat(c, n) == [i \in 1..n |-> c]

Page(text) == [raises |-> FALSE, text |-> text]

FailingPage == [raises |-> TRUE, text |-> <<>>]

\* two sentences of 500 characters each
BookText ==
    <<"a", "b", " ">> \o Repeat("z", 496) \o <<".", " ">>
        \o <<"c", "d", " ", "a", "b", " ">> \o Repeat("y", 493) \o <<".">>

Pdfs ==
    [notes |-> [opens |-> TRUE,
                pages |-> <<Page(<<"A", "b", " ", "c", "d", " ", "e", "f", ".">>)>>],
     partial |-> [opens |-> TRUE,
                  pages |-> <<Page(<<"c", "d", " ", "x", "a", "b", " ", "c", "d", "x", ".">>),
                              Page(<<"#", " ", "@">>)>>],
     scan |-> [opens |-> TRUE,
               pages |-> <<FailingPage, Page(<<" ", "\n">>),
                           Page(<<"#", "x", "a", "b", " ", "c", "d", "x", "@">>)>>],
     book |-> [opens |-> TRUE, pages |-> <<Page(BookText)>>],
     blank |-> [opens |-> TRUE, pages |-> <<FailingPage, Page(<<" ", "\n">>)>>],
     corrupt |-> [opens |-> FALSE, pages |-> <<>>]]

Uploads ==
    {[pdf |-> "notes", filename |-> "physics.pdf"],
     [pdf |-> "partial", filename |-> "physics.pdf"],
     [pdf |-> "scan", filename |-> "biology.pdf"],
     [pdf |-> "book", filename |-> "book.pdf"],
     [pdf |-> "blank", filename |-> "blank.pdf"],
     [pdf |-> "corrupt", filename |-> "physics.pdf"]}

Queries ==
    {<<"A", "b", " ", "c", "d">>,
     <<"c", "d">>,
     <<"a", "b", " ", "c", "d", " ", "e", "f">>,
     <<" ", "?", "!">>,
     <<>>,
     <<" ", " ">>,
     <<"-", "-", "-">>}

\* a query that is not a str
NonStringQueries == {None}

\* the values of max_results: none, one, and the default of search_relevant_content
ResultLimits == {0, 1, 3}

(***************************************************************************)
(* The engine: its state after __init__ and one action per method.  ret is *)
(* the last call: the method, its arguments, whether it raised, and the    *)
(* value it returned (or the exception).                                   *)
(***************************************************************************)
Init ==
    /\ documents = <<>>
    /\ chunks = <<>>
    /\ ret = [op |-> "__init__", args |-> <<>>, raised |-> FALSE, value |-> <<>>]

AddDocument(upload) ==
    /\ Len(documents) < MaxDocs
    /\ LET r == add_document(documents, chunks, Pdfs[upload.pdf], upload.filename)
       IN  /\ documents' = r.documents
           /\ chunks' = r.chunks
           /\ ret' = [op |-> "add_document", args |-> upload,
                      raised |-> r.outcome.raised, value |-> r.outcome.value]

SearchRelevantContent(query, max_results) ==
    /\ LET r == search_relevant_content(chunks, query, max_results)
       IN  ret' = [op |-> "search_relevant_content",
                   args |-> [query |-> query, max_results |-> max_results],
                   raised |-> r.raised, value |-> r.value]
    /\ UNCHANGED <<documents, chunks>>

Next ==
    \/ \E upload \in Uploads : AddDocument(upload)
    \/ \E query \in Queries \cup NonStringQueries, max_results \in ResultLimits :
          SearchRelevantContent(query, max_results)

Spec == Init /\ [][Next]_vars

(***************************************************************************)
(* create_chunks on its own: a call with a text of at most MaxSentences    *)
(* pieces and a chunk_size, and its return.                                *)
(***************************************************************************)
MaxSentences == 5

\* the pieces of the texts: a short sentence, a sentence that preprocess_text
\* changes, a long sentence, and words without a terminator
SentencePool ==
    {<<"a", ".">>,
     <<"b", "b", "#", "\n", "b", "b", "!">>,
     Repeat("e", 11) \o <<".">>,
     <<"f">>}

Texts ==
    {join(<<" ">>, pieces) : pieces \in UNION {[1..n -> SentencePool] : n \in 0..MaxSentences}}

\* the values of chunk_size: below every sentence, between the sentences of
\* SentencePool, above them, and the default
ChunkSizes == {0, 8, 14, DefaultChunkSize}

ChunkerInit ==
    /\ documents = <<>>
    /\ chunks = <<>>
    /\ \E text \in Texts, chunk_size \in ChunkSizes :
          ret = [op |-> "call create_chunks",
                 args |-> [text |-> text, chunk_size |-> chunk_size],
                 raised |-> FALSE, value |-> <<>>]

CreateChunks ==
    /\ ret.op = "call create_chunks"
    /\ ret' = [op |-> "create_chunks", args |-> ret.args, raised |-> FALSE,
               value |-> create_chunks(ret.args.text, ret.args.chunk_size)]
    /\ UNCHANGED <<documents, chunks>>

ChunkerSpec == ChunkerInit /\ [][CreateChunks]_vars

(***************************************************************************)
(* The engine with the methods that read the knowledge base: uploads that  *)
(* are stored, questions and topics, and the replies of the service.  The  *)
(* last call of a method that uses the service also holds its posts.       *)
(***************************************************************************)
StudyUploads == {upload \in Uploads : upload.pdf \in {"notes", "book"}}

\* a question that shares words with stored chunks, one that shares a word
\* with the notes only, and one without a word
Questions ==
    {<<"A", "b", " ", "c", "d">>,
     <<"e", "f">>,
     <<" ", "?", "!">>}

ComplexityLevels ==
    {<<"b", "e", "g", "i", "n", "n", "e", "r">>,
     <<"A", "d", "v", "a", "n", "c", "e", "d">>}

\* no topic, the empty topic, and a topic that shares a word with stored chunks
Topics == {None, <<>>, <<"c", "d">>}

\* the default of generate_study_quiz' question_count
DefaultQuestionCount == 5

Replies ==
    {[kind |-> "candidates", text |-> <<"O", "k", ".">>],
     [kind |-> "RequestException", text |-> <<>>],
     [kind |-> "KeyError", text |-> <<>>],
     [kind |-> "no candidates", text |-> <<>>]}

GenerateAnswer(question) ==
    /\ LET found == search_relevant_content(chunks, question, 3)
       IN  \E complexity_level \in ComplexityLevels, reply \in Replies :
               LET r == generate_answer(found, question, complexity_level, reply)
               IN  ret' = [op |-> "generate_answer",
                           args |-> [question |-> question,
                                     complexity_level |-> complexity_level],
                           raised |-> r.outcome.raised, value |-> r.outcome.value,
                           posts |-> r.posts]
    /\ UNCHANGED <<documents, chunks>>

GetDocumentStats ==
    /\ ret' = [op |-> "get_document_stats", args |-> <<>>, raised |-> FALSE,
               value |-> get_document_stats(documents, chunks)]
    /\ UNCHANGED <<documents, chunks>>

GenerateStudyQuiz(topic, question_count) ==
    /\ LET found == search_relevant_content(chunks, QuizQuery(topic), 5)
       IN  \E reply \in Replies :
               LET r == generate_study_quiz(found, question_count, reply)
               IN  ret' = [op |-> "generate_study_quiz",
                           args |-> [topic |-> topic, question_count |-> question_count],
                           raised |-> r.outcome.raised, value |-> r.outcome.value,
                           posts |-> r.posts]
    /\ UNCHANGED <<documents, chunks>>

EngineNext ==
    \/ \E upload \in StudyUploads : AddDocument(upload)
    \/ \E query \in Questions : SearchRelevantContent(query, 3)
    \/ GetDocumentStats
    \/ \E question \in Questions : GenerateAnswer(question)
    \/ \E topic \in Topics : GenerateStudyQuiz(topic, DefaultQuestionCount)

EngineSpec == Init /\ [][EngineNext]_vars

(***************************************************************************)
(* Vocabulary of the properties.                                           *)
(***************************************************************************)
Added == ret.op = "add_document"

Searched == ret.op = "search_relevant_content"

\* the word tokens of a query, and those a chunk shares with it
QueryWords(query) == WordSet(lower(query))

SharedWords(query, chunk) == QueryWords(query) \cap WordSet(chunk.text_lower)

\* the lowercased query is a substring of the chunk's lowercased text
HasPhrase(query, chunk) == Contains(chunk.text_lower, lower(query))

\* the positions in self.chunks of the chunks that share a word with the query
Matching(query) == {p \in 1..Len(chunks) : SharedWords(query, chunks[p]) # {}}

\* the positions in self.chunks of the entries of a result list
Positions(results) == {results[k].pos : k \in 1..Len(results)}

\* 10 * |queryTokens| * min(1.0, |commonTokens| / |queryTokens| + 0.3 [phrase] + 0.2 [more than one])
StatedScore(query, chunk) ==
    LET q == Cardinality(QueryWords(query))
        c == Cardinality(SharedWords(query, chunk))
        sum == 10 * c + (IF HasPhrase(query, chunk) THEN 3 * q ELSE 0)
                      + (IF c > 1 THEN 2 * q ELSE 0)
    IN  IF sum > 10 * q THEN 10 * q ELSE sum

\* the fraction score equals StatedScore(query, chunk) / (10 * |queryTokens|)
ScoreIsStated(score, query, chunk) ==
    score.num * 10 * Cardinality(QueryWords(query)) = score.den * StatedScore(query, chunk)

\* the PDF does not open, or none of its pages gives text that is not blank
NoReadableText(pdf_file) ==
    \/ ~pdf_file.opens
    \/ \A k \in 1..Len(pdf_file.pages) :
          \/ pdf_file.pages[k].raises
          \/ \A i \in 1..Len(pdf_file.pages[k].text) : IsSpace(pdf_file.pages[k].text[i])

RECURSIVE ChunkCounterSum(_)
ChunkCounterSum(docs) ==
    IF docs = <<>> THEN 0 ELSE Head(docs).value.chunks + ChunkCounterSum(Tail(docs))

\* create_chunks has returned
Chunked == ret.op = "create_chunks"

\* the sentence split of the cleaned text of a create_chunks call
SentencesOfText == SplitSentences(preprocess_text(ret.args.text))

\* the cleaned text of the call is not empty
TextIsNotEmpty == preprocess_text(ret.args.text) # <<>>

\* the sentences of an emitted chunk, read off its text
SentencesOf(chunk) == SplitSentences(chunk.text)

\* the number of sentences chunk k takes over from chunk k - 1
Seeds(chs, k) == IF k > 1 /\ Len(SentencesOf(chs[k - 1])) > 2 THEN 2 ELSE 0

\* the sentences of the chunks from chunk k on, in order, without the seeds
RECURSIVE Reassembled(_, _)
Reassembled(chs, k) ==
    IF k > Len(chs) THEN <<>>
    ELSE SubSeq(SentencesOf(chs[k]), Seeds(chs, k) + 1, Len(SentencesOf(chs[k])))
             \o Reassembled(chs, k + 1)

\* the places in the sentence split of the first and the last sentence of
\* chunk k, when every chunk holds consecutive sentences and starts with the
\* seeds it takes over
RECURSIVE StartOf(_, _), EndOf(_, _)
StartOf(chs, k) == IF k = 1 THEN 1 ELSE EndOf(chs, k - 1) + 1 - Seeds(chs, k)

EndOf(chs, k) == StartOf(chs, k) + Len(SentencesOf(chs[k])) - 1

\* the chunks that hold sentence i of the sentence split
ChunksHolding(chs, i) == {k \in 1..Len(chs) : StartOf(chs, k) <= i /\ i <= EndOf(chs, k)}

\* generate_answer has returned or raised
Answered == ret.op = "generate_answer"

\* the methods that read the knowledge base
ReadOps ==
    {"search_relevant_content", "get_document_stats", "generate_answer", "generate_study_quiz"}

\* the chunk_index values of the chunks of a document, in storage order
ChunkIndexesOf(doc_id) ==
    LET own == SelectSeq(chunks, LAMBDA c : c.doc_id = doc_id)
    IN  [k \in 1..Len(own) |-> own[k].chunk_index]

(***************************************************************************)
(* C1 is about an add_document call for which create_chunks yields no      *)
(* chunk.  No call is such a call: extract_text_from_pdf raises when no    *)
(* page gives text, and otherwise puts a "--- Page i of N ---" marker,     *)
(* which preprocess_text keeps, in front of the text of every page.  So    *)
(* every stored document record counts at least one chunk.                 *)
(***************************************************************************)
StoredDocumentsHaveChunks ==
    \A i \in 1..Len(documents) : documents[i].value.chunks >= 1

(***************************************************************************)
(* C2: in every reachable state the number of stored chunks is the sum of  *)
(* the 'chunks' counters of the stored document records, and the doc_id of *)
(* every stored chunk is the key of a stored document record.              *)
(***************************************************************************)
C2_ChunksBelongToDocuments ==
    /\ Len(chunks) = ChunkCounterSum(documents)
    /\ \A i \in 1..Len(chunks) : chunks[i].doc_id \in Keys(documents)

\* a failed add_document on a knowledge base that holds a document of several chunks
C2_Witness ==
    /\ Added /\ ret.raised
    /\ Len(documents) >= 1
    /\ Len(chunks) > Len(documents)

(***************************************************************************)
(* C3: for every document, the chunk_index values of its chunks are, in    *)
(* storage order, exactly 0, 1, ..., n-1 with n the document's chunk count.*)
(***************************************************************************)
C3_ChunkIndexesContiguous ==
    \A i \in 1..Len(documents) :
        ChunkIndexesOf(documents[i].key) = [k \in 1..documents[i].value.chunks |-> k - 1]

\* two documents are stored and one of them has several chunks
C3_Witness ==
    /\ Len(documents) >= 2
    /\ \E i \in 1..Len(documents) : documents[i].value.chunks >= 2

(***************************************************************************)
(* C4: an add_document call whose text extraction fails (the PDF does not  *)
(* open, or no page gives text that is not blank) raises and leaves the    *)
(* documents and the chunks as they were.                                  *)
(***************************************************************************)
C4_FailedExtractionChangesNothing ==
    [][(ret'.op = "add_document" /\ NoReadableText(Pdfs[ret'.args.pdf]))
           => (ret'.raised /\ documents' = documents /\ chunks' = chunks)]_vars

\* add_document has failed on a PDF without readable text, with documents stored
C4_Witness ==
    /\ Added /\ ret.raised
    /\ NoReadableText(Pdfs[ret.args.pdf])
    /\ Pdfs[ret.args.pdf].opens
    /\ Len(chunks) >= 1

(***************************************************************************)
(* C5: no operation removes or changes a stored document record or chunk   *)
(* (both collections only grow at their end), and a successful             *)
(* add_document adds exactly one record, under a key no record had, and    *)
(* appends exactly the returned number of chunks, all of that document.    *)
(***************************************************************************)
C5_SuccessfulAddOnlyAppends ==
    [][/\ Len(documents') >= Len(documents)
       /\ SubSeq(documents', 1, Len(documents)) = documents
       /\ Len(chunks') >= Len(chunks)
       /\ SubSeq(chunks', 1, Len(chunks)) = chunks
       /\ (ret'.op = "add_document" /\ ~ret'.raised)
              => /\ Len(documents') = Len(documents) + 1
                 /\ documents'[Len(documents')].key = ret'.value[1]
                 /\ ret'.value[1] \notin Keys(documents)
                 /\ Len(chunks') = Len(chunks) + ret'.value[2]
                 /\ \A k \in (Len(chunks) + 1)..Len(chunks') :
                        chunks'[k].doc_id = ret'.value[1]]_vars

\* add_document has succeeded with several chunks on a knowledge base that held a document
C5_Witness ==
    /\ Added /\ ~ret.raised
    /\ Len(documents) >= 2
    /\ ret.value[2] >= 2
    /\ Len(chunks) > ret.value[2]

(***************************************************************************)
(* C6: the score of every entry search returns is                          *)
(* min(1.0, |commonTokens| / |queryTokens| + 0.3 if the lowercased query   *)
(* is a substring of the chunk's lowercased text + 0.2 if                  *)
(* |commonTokens| > 1).                                                    *)
(***************************************************************************)
C6_ScoreIsTheStatedFormula ==
    Searched =>
        \A k \in 1..Len(ret.value) :
            ScoreIsStated(ret.value[k].similarity_score, ret.args.query,
                          chunks[ret.value[k].pos])

\* search has returned an entry with the phrase bonus below the cap, and one
\* with the sequence bonus below the cap
C6_Witness ==
    /\ Searched
    /\ \E k \in 1..Len(ret.value) :
          /\ ret.value[k].similarity_score.num < ret.value[k].similarity_score.den
          /\ HasPhrase(ret.args.query, chunks[ret.value[k].pos])
    /\ \E k \in 1..Len(ret.value) :
          /\ ret.value[k].similarity_score.num < ret.value[k].similarity_score.den
          /\ ~HasPhrase(ret.args.query, chunks[ret.value[k].pos])

(***************************************************************************)
(* C7: two entries of a search result with equal scores are in the order   *)
(* in which their chunks were inserted into the index.                     *)
(***************************************************************************)
C7_TiesKeepInsertionOrder ==
    Searched =>
        \A i, j \in 1..Len(ret.value) :
            (i < j /\ ret.value[i].similarity_score = ret.value[j].similarity_score)
                => ret.value[i].pos < ret.value[j].pos

\* search has returned two entries of equal score behind an entry of a higher score
C7_Witness ==
    /\ Searched
    /\ \E i, j \in 1..Len(ret.value) :
          /\ 1 < i /\ i < j
          /\ ret.value[i].similarity_score = ret.value[j].similarity_score
          /\ ret.value[1].similarity_score.num > ret.value[i].similarity_score.num

(***************************************************************************)
(* C8: a search result holds min(max_results, number of matching chunks)   *)
(* entries, each of another matching chunk, with scores that never         *)
(* increase along the list, and no matching chunk left out scores          *)
(* strictly more than a returned one.                                      *)
(***************************************************************************)
C8_ResultIsTopOfRanking ==
    Searched =>
        LET results == ret.value
            query == ret.args.query
            q == Cardinality(QueryWords(query))
        IN  /\ Len(results) = Min({ret.args.max_results, Cardinality(Matching(query))})
            /\ Positions(results) \subseteq Matching(query)
            /\ Cardinality(Positions(results)) = Len(results)
            /\ \A k \in 1..(Len(results) - 1) :
                   results[k].similarity_score.num >= results[k + 1].similarity_score.num
            /\ \A p \in Matching(query) \ Positions(results) :
                   \A k \in 1..Len(results) :
                       StatedScore(query, chunks[p]) * results[k].similarity_score.den
                           <= results[k].similarity_score.num * 10 * q

\* search has returned a list cut at max_results, leaving matching chunks out
C8_Witness ==
    /\ Searched
    /\ ret.args.max_results >= 1
    /\ Len(ret.value) = ret.args.max_results
    /\ Cardinality(Matching(ret.args.query)) > ret.args.max_results

(***************************************************************************)
(* C9: every entry search returns is of a chunk that shares a word token   *)
(* with the query and has a score in (0, 1]; a chunk without a common      *)
(* token is never returned.                                                *)
(***************************************************************************)
C9_OnlyMatchingChunksReturned ==
    Searched =>
        \A k \in 1..Len(ret.value) :
            /\ SharedWords(ret.args.query, chunks[ret.value[k].pos]) # {}
            /\ ret.value[k].matching_words # {}
            /\ 0 < ret.value[k].similarity_score.num
            /\ ret.value[k].similarity_score.num <= ret.value[k].similarity_score.den

\* search has returned entries while a chunk without a common token is stored,
\* one that holds the query as a substring
C9_Witness ==
    /\ Searched
    /\ Len(ret.value) >= 1
    /\ \E p \in 1..Len(chunks) :
          /\ SharedWords(ret.args.query, chunks[p]) = {}
          /\ HasPhrase(ret.args.query, chunks[p])

(***************************************************************************)
(* C10, as stated: a chunk whose lowercased text contains the lowercased   *)
(* query verbatim is returned, with a score that includes the 0.3 phrase   *)
(* bonus, before every chunk that shares only one token with the query.    *)
(* Stated here for queries of two words or more and for calls whose        *)
(* max_results leaves room for every stored chunk.                         *)
(***************************************************************************)
C10_AsStated ==
    (/\ Searched
     /\ Cardinality(QueryWords(ret.args.query)) >= 2
     /\ ret.args.max_results >= Len(chunks))
        => \A p \in 1..Len(chunks) :
               HasPhrase(ret.args.query, chunks[p])
                   => \E k \in 1..Len(ret.value) :
                          /\ ret.value[k].pos = p
                          /\ ScoreIsStated(ret.value[k].similarity_score, ret.args.query,
                                           chunks[p])
                          /\ \A j \in 1..Len(ret.value) :
                                 (/\ j # k
                                  /\ Cardinality(SharedWords(ret.args.query,
                                                             chunks[ret.value[j].pos])) = 1)
                                     => k < j

(***************************************************************************)
(* C10, amended: for a query of two word tokens or more and a chunk that   *)
(* shares a word token with the query and whose lowercased text contains   *)
(* the lowercased query verbatim: the chunk's score is                     *)
(* min(1.0, base + 0.3 + sequence bonus); the chunk is returned unless     *)
(* max_results chunks that score at least as much fill the result; and it  *)
(* is ranked before every returned chunk that shares only one token with   *)
(* the query and does not contain the query verbatim.                      *)
(***************************************************************************)
C10_PhraseChunkRanksFirst ==
    (Searched /\ Cardinality(QueryWords(ret.args.query)) >= 2)
        => LET results == ret.value
               query == ret.args.query
               q == Cardinality(QueryWords(query))
           IN  \A p \in 1..Len(chunks) :
                   (HasPhrase(query, chunks[p]) /\ SharedWords(query, chunks[p]) # {})
                       => LET c == Cardinality(SharedWords(query, chunks[p]))
                              withBonus == Min({10 * q,
                                                10 * c + 3 * q + (IF c > 1 THEN 2 * q ELSE 0)})
                          IN  /\ \A k \in 1..Len(results) :
                                     results[k].pos = p
                                         => results[k].similarity_score.num * 10 * q
                                                = results[k].similarity_score.den * withBonus
                              /\ p \notin Positions(results)
                                     => /\ Len(results) = ret.args.max_results
                                        /\ \A k \in 1..Len(results) :
                                               results[k].similarity_score.num * 10 * q
                                                   >= results[k].similarity_score.den * withBonus
                              /\ \A j \in 1..Len(results) :
                                     (/\ Cardinality(SharedWords(query, chunks[results[j].pos])) = 1
                                      /\ ~HasPhrase(query, chunks[results[j].pos]))
                                         => \E k \in 1..(j - 1) : results[k].pos = p

\* search for a query of two words has returned a chunk that holds the query
\* verbatim, with the phrase bonus below the cap, before a chunk that shares one
\* word and does not hold the query
C10_Witness ==
    /\ Searched
    /\ Cardinality(QueryWords(ret.args.query)) >= 2
    /\ \E k, j \in 1..Len(ret.value) :
          /\ k < j
          /\ HasPhrase(ret.args.query, chunks[ret.value[k].pos])
          /\ ret.value[k].similarity_score.num < ret.value[k].similarity_score.den
          /\ Cardinality(SharedWords(ret.args.query, chunks[ret.value[j].pos])) = 1
          /\ ~HasPhrase(ret.args.query, chunks[ret.value[j].pos])

(***************************************************************************)
(* C11: whatever the knowledge base holds, a search with a query that has  *)
(* no word character (the empty string, white space only, punctuation      *)
(* only) returns the empty list and does not raise.                        *)
(***************************************************************************)
C11_EmptyTokenizationFindsNothing ==
    (/\ Searched
     /\ ret.args.query \in Queries
     /\ \A i \in 1..Len(ret.args.query) : ~IsWordChar(ret.args.query[i]))
        => (ret.value = <<>> /\ ~ret.raised)

\* a search with a punctuation-only query that is a substring of a stored chunk
C11_Witness ==
    /\ Searched
    /\ ret.args.query = <<"-", "-", "-">>
    /\ ret.args.max_results > 0
    /\ \E p \in 1..Len(chunks) : HasPhrase(ret.args.query, chunks[p])

(***************************************************************************)
(* C12: search_relevant_content never raises: when its scoring fails (a    *)
(* query that is not a str) it returns the empty list, and in every case   *)
(* it leaves the documents and the chunks as they were.                    *)
(***************************************************************************)
C12_SearchNeverRaises ==
    [][ret'.op = "search_relevant_content"
           => /\ ~ret'.raised
              /\ ret'.args.query \in NonStringQueries => ret'.value = <<>>
              /\ documents' = documents
              /\ chunks' = chunks]_vars

\* a search with a query that is not a str on a knowledge base that holds chunks
C12_Witness ==
    /\ Searched
    /\ ret.args.query = None
    /\ Len(chunks) >= 1
    /\ ret.value = <<>>

(***************************************************************************)
(* C13: for a text that is not empty after cleaning, and any chunk_size,   *)
(* every sentence of the sentence split is in an emitted chunk, and the    *)
(* sentences of the emitted chunks, read in order without the sentences a  *)
(* chunk takes over from the chunk before it, are the sentence split.      *)
(***************************************************************************)
C13_ChunksGiveBackTheSentences ==
    (Chunked /\ TextIsNotEmpty)
        => /\ \A i \in 1..Len(SentencesOfText) :
                  \E k \in 1..Len(ret.value) :
                      SentencesOfText[i] \in Range(SentencesOf(ret.value[k]))
           /\ Reassembled(ret.value, 1) = SentencesOfText

\* a text is cut into three chunks or more, with and without sentences taken over
C13_Witness ==
    /\ Chunked
    /\ Len(ret.value) >= 3
    /\ \E k \in 2..Len(ret.value) : Seeds(ret.value, k) = 2
    /\ \E k \in 2..Len(ret.value) : Seeds(ret.value, k) = 0

(***************************************************************************)
(* C14: no emitted chunk, other than a chunk that is one sentence longer   *)
(* than chunk_size, has a text that is longer than chunk_size by more than *)
(* the length of its last sentence.                                        *)
(***************************************************************************)
C14_AsStated ==
    Chunked =>
        \A k \in 1..Len(ret.value) :
            LET own == SentencesOf(ret.value[k])
            IN  \/ Len(own) = 1 /\ Len(own[1]) > ret.args.chunk_size
                \/ Len(ret.value[k].text) - ret.args.chunk_size <= Len(own[Len(own)])

(***************************************************************************)
(* C15: a sentence longer than chunk_size is emitted as a chunk of its     *)
(* own: one chunk holds it, and that chunk holds no other sentence.        *)
(***************************************************************************)
C15_AsStated ==
    (Chunked /\ TextIsNotEmpty) =>
        \A i \in 1..Len(SentencesOfText) :
            Len(SentencesOfText[i]) > ret.args.chunk_size
                => \E k \in 1..Len(ret.value) :
                       /\ ChunksHolding(ret.value, i) = {k}
                       /\ SentencesOf(ret.value[k]) = <<SentencesOfText[i]>>

(***************************************************************************)
(* C16: the text of every emitted chunk is consecutive sentences of the    *)
(* sentence split joined by single blanks; the first chunk starts with the *)
(* first sentence; a chunk that follows a chunk of more than 2 sentences   *)
(* starts with the last two sentences of that chunk and then holds the     *)
(* first sentence that chunk did not hold, and a chunk that follows a      *)
(* chunk of at most 2 sentences starts with that sentence.                 *)
(***************************************************************************)
C16_ChunksAreRunsOfSentences ==
    (Chunked /\ TextIsNotEmpty) =>
        \A k \in 1..Len(ret.value) :
            /\ EndOf(ret.value, k) <= Len(SentencesOfText)
            /\ ret.value[k].text =
                   join(<<" ">>, SubSeq(SentencesOfText, StartOf(ret.value, k), EndOf(ret.value, k)))
            /\ ret.value[k].sentence_count = EndOf(ret.value, k) - StartOf(ret.value, k) + 1
            /\ k > 1 => EndOf(ret.value, k) > EndOf(ret.value, k - 1)

\* a chunk of at most 2 sentences is followed by a chunk, and a chunk of more
\* than 2 sentences is followed by a chunk that is longer than chunk_size
C16_Witness ==
    /\ Chunked
    /\ \E k \in 2..Len(ret.value) : ret.value[k - 1].sentence_count <= 2
    /\ \E k \in 2..Len(ret.value) :
          /\ ret.value[k - 1].sentence_count > 2
          /\ Len(ret.value[k].text) > ret.args.chunk_size

(***************************************************************************)
(* C17: when no stored chunk shares a word with the question (no chunk is  *)
(* stored, the question has no word, or no chunk has one of its words),    *)
(* generate_answer returns the fixed answer with no sources and            *)
(* context_used = 0, and posts nothing to the service.                     *)
(***************************************************************************)
C17_NoResultsGiveTheFixedAnswer ==
    (Answered /\ Matching(ret.args.question) = {})
        => /\ ~ret.raised
           /\ ret.value = [answer |-> NoRelevantInformation, sources |-> <<>>, context_used |-> 0]
           /\ ret.posts = <<>>

\* a question with a word that no stored chunk has, asked of stored chunks
C17_Witness ==
    /\ Answered
    /\ Len(chunks) >= 2
    /\ QueryWords(ret.args.question) # {}
    /\ Matching(ret.args.question) = {}
    /\ ret.value.context_used = 0

(***************************************************************************)
(* C18: when a stored chunk shares a word with the question,               *)
(* generate_answer posts to the service exactly once; when the post fails  *)
(* generate_answer raises; when it gives a text, context_used is the       *)
(* number of retrieved chunks, which is the number of matching chunks up   *)
(* to 3, and sources has one entry for each of them.                       *)
(***************************************************************************)
C18_OneCallPerAnswer ==
    (Answered /\ Matching(ret.args.question) # {})
        => /\ Len(ret.posts) = 1
           /\ ret.posts[1].reply.kind # "candidates" => ret.raised
           /\ ret.posts[1].reply.kind = "candidates"
                  => /\ ~ret.raised
                     /\ ret.value.answer = ret.posts[1].reply.text
                     /\ ret.value.context_used =
                            Min({3, Cardinality(Matching(ret.args.question))})
                     /\ Len(ret.value.sources) = ret.value.context_used
                     /\ \A k \in 1..Len(ret.value.sources) :
                            \E p \in Matching(ret.args.question) :
                                chunks[p].filename = ret.value.sources[k].filename

\* an answer from 3 of more than 3 matching chunks
C18_Witness ==
    /\ Answered /\ ~ret.raised
    /\ Cardinality(Matching(ret.args.question)) > 3
    /\ ret.value.context_used = 3
    /\ Len(ret.posts) = 1

(***************************************************************************)
(* C19: search_relevant_content, get_document_stats, generate_answer and   *)
(* generate_study_quiz leave the documents and the chunks as they were,    *)
(* whatever their outcome; get_document_stats gives the number of stored   *)
(* documents, the number of stored chunks, and the document records in the *)
(* order in which they were stored.                                        *)
(***************************************************************************)
C19_ReadsChangeNothing ==
    [][ret'.op \in ReadOps
           => /\ documents' = documents
              /\ chunks' = chunks
              /\ ret'.op = "get_document_stats"
                     => /\ ~ret'.raised
                        /\ ret'.value.total_documents = Len(documents)
                        /\ ret'.value.total_chunks = Len(chunks)
                        /\ Len(ret'.value.documents) = Len(documents)
                        /\ \A i \in 1..Len(documents) :
                               ret'.value.documents[i] = documents[i].value]_vars

\* get_document_stats on two different documents with more chunks than documents
C19_Witness ==
    /\ ret.op = "get_document_stats"
    /\ Len(documents) = 2
    /\ documents[1].value # documents[2].value
    /\ ret.value.total_chunks > 2

====
